---- MODULE Spec2Model ----
(***************************************************************************)
(* Model of the audit REST API of confiture-rest-api: the relational       *)
(* tables the AuditService writes through Prisma, the service operations   *)
(* (audit.service.ts) and the controller handlers that wrap them           *)
(* (audits.controller.ts).                                                 *)
(*                                                                         *)
(* A table is a set of rows (records).  A Prisma call is an operator from  *)
(* the current tables to a result record holding an error code and the     *)
(* tables after the call; prisma.$transaction and nested writes commit     *)
(* all of their writes or none.  One action is one HTTP request, handled   *)
(* from the controller method down to the store.                           *)
(*                                                                         *)
(* The unique keys are the ones the service names in its where clauses:    *)
(* email_auditUniqueId, name_function_url_auditUniqueId, the seven-field   *)
(* environment key, url_auditUniqueId and                                  *)
(* auditUniqueId_pageUrl_topic_criterium.                                  *)
(***************************************************************************)
EXTENDS Integers, Sequences, FiniteSets, TLC

VARIABLES
    audits,        \* table Audit
    traces,        \* table AuditTrace
    recipients,    \* table Recipent
    tools,         \* table Tool
    environments,  \* table TestEnvironment
    pages,         \* table AuditedPage
    results,       \* table CriterionResult
    now,           \* the clock new Date() reads
    nextPageId,    \* the autoincrement sequence of AuditedPage.id
    last,          \* the last request handled and the response it got
    pending,       \* the requests a handler has received and not yet answered
    store          \* the state of the web application's results store

vars == <<audits, traces, recipients, tools, environments, pages, results,
          now, nextPageId, last, pending, store>>

tables == <<audits, traces, recipients, tools, environments, pages, results>>

-----------------------------------------------------------------------------
(* Bounds of the model.                                                    *)

\* number of audits create-audit may create in one behaviour
MaxAudits == 2
\* largest value the clock reaches
MaxClock == 3
\* largest page identifier the sequence hands out
MaxPageId == 2

\* a DateTime? column holding NULL
NULL == 0

-----------------------------------------------------------------------------
(* Tokens.  nanoid() returns a fresh opaque string on every call; the i-th *)
(* audit created gets the pair (EditId(i), ConsultId(i)).                  *)

EditId(i) == <<"edit", i>>
ConsultId(i) == <<"consult", i>>

EditIds == {EditId(i) : i \in 1..MaxAudits}
ConsultIds == {ConsultId(i) : i \in 1..MaxAudits}

\* what a client may put in the :uniqueId path parameter
RequestIds == EditIds \cup ConsultIds

\* the index nanoid()'s next pair gets: tokens are never handed out twice
nanoid == Cardinality(traces) + 1

-----------------------------------------------------------------------------
(* Sequences.                                                              *)

Range(s) == {s[i] : i \in DOMAIN s}

\* the sequences over S of length at most n
SeqsUpTo(S, n) == UNION {[1..k -> S] : k \in 0..n}

\* Array.prototype.filter
RECURSIVE Filter(_, _)
Filter(s, keep) ==
    IF s = <<>> THEN <<>>
    ELSE IF Head(s) \in keep THEN <<Head(s)>> \o Filter(Tail(s), keep)
    ELSE Filter(Tail(s), keep)

-----------------------------------------------------------------------------
(* Rows.  The scalar columns of Audit that update-audit copies from the    *)
(* payload in the same way (procedureName, procedureUrl, initiator, ...,   *)
(* notInScopeContent) are represented by procedureName.  The nullable text *)
(* columns of CriterionResult are represented by compliantComment.         *)

AuditRow(editUniqueId, consultUniqueId, data) ==
    [editUniqueId |-> editUniqueId, consultUniqueId |-> consultUniqueId,
     procedureName |-> data.procedureName,
     publicationDate |-> NULL, editionDate |-> NULL]

\* (mutant) the two tokens stored in each other's column
Mutant_TraceRow(editUniqueId, consultUniqueId) ==
    [auditEditUniqueId |-> consultUniqueId, auditConsultUniqueId |-> editUniqueId]

TraceRow(editUniqueId, consultUniqueId) ==
    [auditEditUniqueId |-> editUniqueId, auditConsultUniqueId |-> consultUniqueId]

RecipientRow(uniqueId, recipient) ==
    [auditUniqueId |-> uniqueId, email |-> recipient.email, name |-> recipient.name]

ToolRow(uniqueId, tool) ==
    [auditUniqueId |-> uniqueId, name |-> tool.name, function |-> tool.function,
     url |-> tool.url]

EnvironmentRow(uniqueId, e) ==
    [auditUniqueId |-> uniqueId, platform |-> e.platform,
     operatingSystem |-> e.operatingSystem,
     operatingSystemVersion |-> e.operatingSystemVersion,
     assistiveTechnology |-> e.assistiveTechnology,
     assistiveTechnologyVersion |-> e.assistiveTechnologyVersion,
     browser |-> e.browser, browserVersion |-> e.browserVersion]

PageRow(id, uniqueId, p) ==
    [id |-> id, auditUniqueId |-> uniqueId, name |-> p.name, url |-> p.url]

ResultRow(uniqueId, item) ==
    [auditUniqueId |-> uniqueId, pageUrl |-> item.pageUrl, topic |-> item.topic,
     criterium |-> item.criterium, status |-> item.status,
     compliantComment |-> item.compliantComment, userImpact |-> item.userImpact]

\* the rows of a child table that belong to one audit
OfAudit(rows, uniqueId) == {r \in rows : r.auditUniqueId = uniqueId}

\* prisma.audit.findUnique({ where: { editUniqueId } }): the set holds 0 or 1 row
findAudit(auditRows, uniqueId) == {a \in auditRows : a.editUniqueId = uniqueId}

\* (mutant) no cascade: the results of a deleted page stay
Mutant_cascadeResults(resultRows, pageRows) == resultRows

\* onDelete: Cascade from AuditedPage to CriterionResult: a result whose page
\* is gone is deleted with it
cascadeResults(resultRows, pageRows) ==
    {r \in resultRows :
        \E p \in pageRows : p.auditUniqueId = r.auditUniqueId /\ p.url = r.pageUrl}

-----------------------------------------------------------------------------
(* The nested writes of prisma.audit.update in updateAudit.  Every nested  *)
(* write is scoped to the rows of the audit being updated.                 *)

\* (mutant) the deleteMany run on the whole table instead of nested in the audit
Mutant_recipientsDeleteMany(rows, uniqueId, list) ==
    {r \in rows : r.email \in {list[i].email : i \in DOMAIN list}}

\* recipients.deleteMany { email: { notIn: emails of the payload } }
recipientsDeleteMany(rows, uniqueId, list) ==
    {r \in rows :
        ~(r.auditUniqueId = uniqueId
          /\ r.email \notin {list[i].email : i \in DOMAIN list})}

\* one recipients.upsert, keyed by email_auditUniqueId
recipientUpsert(rows, uniqueId, recipient) ==
    {r \in rows : ~(r.auditUniqueId = uniqueId /\ r.email = recipient.email)}
        \cup {RecipientRow(uniqueId, recipient)}

RECURSIVE recipientsUpsert(_, _, _)
recipientsUpsert(rows, uniqueId, list) ==
    IF list = <<>> THEN rows
    ELSE recipientsUpsert(recipientUpsert(rows, uniqueId, Head(list)),
                          uniqueId, Tail(list))

\* tools.deleteMany { OR: [ name notIn, function notIn, url notIn ] }
toolsDeleteMany(rows, uniqueId, list) ==
    {t \in rows :
        ~(t.auditUniqueId = uniqueId
          /\ (\/ t.name \notin {list[i].name : i \in DOMAIN list}
              \/ t.function \notin {list[i].function : i \in DOMAIN list}
              \/ t.url \notin {list[i].url : i \in DOMAIN list}))}

\* one tools.upsert, keyed by name_function_url_auditUniqueId
toolUpsert(rows, uniqueId, tool) ==
    {t \in rows : ~(t.auditUniqueId = uniqueId /\ t.name = tool.name
                    /\ t.function = tool.function /\ t.url = tool.url)}
        \cup {ToolRow(uniqueId, tool)}

RECURSIVE toolsUpsert(_, _, _)
toolsUpsert(rows, uniqueId, list) ==
    IF list = <<>> THEN rows
    ELSE toolsUpsert(toolUpsert(rows, uniqueId, Head(list)), uniqueId, Tail(list))

\* environments.deleteMany { OR: [ <field> notIn, ... ] } over the seven fields
environmentsDeleteMany(rows, uniqueId, list) ==
    {e \in rows :
        ~(e.auditUniqueId = uniqueId
          /\ (\/ e.platform \notin {list[i].platform : i \in DOMAIN list}
              \/ e.operatingSystem
                    \notin {list[i].operatingSystem : i \in DOMAIN list}
              \/ e.operatingSystemVersion
                    \notin {list[i].operatingSystemVersion : i \in DOMAIN list}
              \/ e.assistiveTechnology
                    \notin {list[i].assistiveTechnology : i \in DOMAIN list}
              \/ e.assistiveTechnologyVersion
                    \notin {list[i].assistiveTechnologyVersion : i \in DOMAIN list}
              \/ e.browser \notin {list[i].browser : i \in DOMAIN list}
              \/ e.browserVersion
                    \notin {list[i].browserVersion : i \in DOMAIN list}))}

\* one environments.upsert, keyed by the seven fields and the audit
environmentUpsert(rows, uniqueId, environment) ==
    {e \in rows : e # EnvironmentRow(uniqueId, environment)}
        \cup {EnvironmentRow(uniqueId, environment)}

RECURSIVE environmentsUpsert(_, _, _)
environmentsUpsert(rows, uniqueId, list) ==
    IF list = <<>> THEN rows
    ELSE environmentsUpsert(environmentUpsert(rows, uniqueId, Head(list)),
                            uniqueId, Tail(list))

\* a payload page carries an identifier: data.pages.filter((p) => p.id)
NoId == 0
updatedPagesOf(list) == Filter(list, {p \in Range(list) : p.id # NoId})
newPagesOf(list) == Filter(list, {p \in Range(list) : p.id = NoId})

\* (mutant) notIn over an empty list matching no row
Mutant_pagesDeleteMany(rows, uniqueId, updatedPages) ==
    IF updatedPages = <<>> THEN rows
    ELSE {p \in rows :
            ~(p.auditUniqueId = uniqueId
              /\ p.id \notin {updatedPages[i].id : i \in DOMAIN updatedPages})}

\* pages.deleteMany { id: { notIn: ids of updatedPages } }
pagesDeleteMany(rows, uniqueId, updatedPages) ==
    {p \in rows :
        ~(p.auditUniqueId = uniqueId
          /\ p.id \notin {updatedPages[i].id : i \in DOMAIN updatedPages})}

\* pages.update [{ where: { id }, data: { name, url } }, ...], one UPDATE after
\* the other.  A page of the audit with that id must exist (P2025 otherwise),
\* the new url must not be the url of another page of the audit (P2002,
\* url_auditUniqueId), and the results of the page follow its url
\* (onUpdate: Cascade).
RECURSIVE pagesUpdate(_, _, _, _)
pagesUpdate(pageRows, resultRows, uniqueId, updatedPages) ==
    IF updatedPages = <<>>
    THEN [code |-> "OK", pages |-> pageRows, results |-> resultRows]
    ELSE LET p == Head(updatedPages)
             hit == {q \in pageRows : q.auditUniqueId = uniqueId /\ q.id = p.id}
         IN  IF hit = {}
             THEN [code |-> "P2025", pages |-> pageRows, results |-> resultRows]
             ELSE LET old == CHOOSE q \in hit : TRUE
                  IN  IF \E q \in pageRows \ hit :
                            q.auditUniqueId = uniqueId /\ q.url = p.url
                      THEN [code |-> "P2002", pages |-> pageRows,
                            results |-> resultRows]
                      ELSE pagesUpdate(
                             (pageRows \ hit) \cup {PageRow(old.id, uniqueId, p)},
                             {IF r.auditUniqueId = uniqueId /\ r.pageUrl = old.url
                                 THEN [r EXCEPT !.pageUrl = p.url] ELSE r
                              : r \in resultRows},
                             uniqueId, Tail(updatedPages))

\* pages.createMany { data: newPages }: one INSERT; the rows get the next
\* identifiers of the sequence; two pages of an audit with one url are refused
\* (P2002, url_auditUniqueId)
pagesCreateMany(pageRows, uniqueId, newPages, firstId) ==
    LET created == {PageRow(firstId + i - 1, uniqueId, newPages[i])
                        : i \in DOMAIN newPages}
        clash == \/ \E i, j \in DOMAIN newPages :
                        i # j /\ newPages[i].url = newPages[j].url
                 \/ \E i \in DOMAIN newPages, q \in pageRows :
                        q.auditUniqueId = uniqueId /\ q.url = newPages[i].url
    IN  IF clash THEN [code |-> "P2002", pages |-> pageRows]
        ELSE [code |-> "OK", pages |-> pageRows \cup created]

\* (mutant) the edit date stamped whether or not the audit is published
Mutant_updateAuditEditDate(auditRows, uniqueId, date) ==
    {IF a.editUniqueId = uniqueId
        THEN [a EXCEPT !.editionDate = date] ELSE a
     : a \in auditRows}

\* private updateAuditEditDate: updateMany where the audit is published
updateAuditEditDate(auditRows, uniqueId, date) ==
    {IF a.editUniqueId = uniqueId /\ a.publicationDate # NULL
        THEN [a EXCEPT !.editionDate = date] ELSE a
     : a \in auditRows}

-----------------------------------------------------------------------------
(* AuditService.  A service operation is an operator of the current tables *)
(* that gives what the method returns and the tables it leaves.            *)

\* the tables as they are: what a failed (rolled back) call leaves
unchangedTables ==
    [audits |-> audits, traces |-> traces, recipients |-> recipients,
     tools |-> tools, environments |-> environments, pages |-> pages,
     results |-> results, nextPageId |-> nextPageId]

\* (mutant) the writes awaited one after the other, outside a transaction: what
\* was written before the failure stays
Mutant_prismaTransaction(code, written) ==
    [code |-> code, db |-> written]

\* prisma.$transaction([...]): the writes of the batch are committed together,
\* or, when one of them failed, none is
prismaTransaction(code, written) ==
    [code |-> code, db |-> IF code = "OK" THEN written ELSE unchangedTables]

\* The prisma.$transaction of updateAudit: prisma.audit.update with its
\* nested writes, in the order the data object lists them, then
\* updateAuditEditDate.  code is "OK" or the code of the error that stopped it.
updateAuditTransaction(uniqueId, data) ==
    LET updatedPages == updatedPagesOf(data.pages)
        newPages == newPagesOf(data.pages)
        audits1 == {IF a.editUniqueId = uniqueId
                       THEN [a EXCEPT !.procedureName = data.procedureName]
                       ELSE a : a \in audits}
        recipients1 ==
            recipientsUpsert(
                recipientsDeleteMany(recipients, uniqueId, data.recipients),
                uniqueId, data.recipients)
        tools1 == toolsUpsert(toolsDeleteMany(tools, uniqueId, data.tools),
                              uniqueId, data.tools)
        environments1 ==
            environmentsUpsert(
                environmentsDeleteMany(environments, uniqueId, data.environments),
                uniqueId, data.environments)
        pages1 == pagesDeleteMany(pages, uniqueId, updatedPages)
        results1 == cascadeResults(results, pages1)
        upd == pagesUpdate(pages1, results1, uniqueId, updatedPages)
        ins == IF upd.code = "OK"
               THEN pagesCreateMany(upd.pages, uniqueId, newPages, nextPageId)
               ELSE [code |-> upd.code, pages |-> upd.pages]
        code == ins.code
    IN  IF findAudit(audits, uniqueId) = {}
        THEN [code |-> "P2025", db |-> unchangedTables]
        ELSE prismaTransaction(code,
                [audits |-> IF code = "OK"
                            THEN updateAuditEditDate(audits1, uniqueId, now)
                            ELSE audits1,
                 traces |-> traces,
                 recipients |-> recipients1,
                 tools |-> tools1,
                 environments |-> environments1,
                 pages |-> ins.pages,
                 results |-> upd.results,
                 nextPageId |-> IF code = "OK" THEN nextPageId + Len(newPages)
                                ELSE nextPageId])

\* updateAudit: the audit, undefined when the transaction failed with P2025,
\* any other error rethrown
AuditService_updateAudit(uniqueId, data) ==
    LET tx == updateAuditTransaction(uniqueId, data)
    IN  [returned |-> IF tx.code = "OK" THEN "audit"
                      ELSE IF tx.code = "P2025" THEN "undefined"
                      ELSE "throw",
         db |-> tx.db]

\* createAudit: prisma.audit.create with recipients.createMany and
\* auditTrace.create.  Two recipients with one email are refused by
\* @@unique([email, auditUniqueId]) and the create is rolled back.
AuditService_createAudit(data) ==
    LET editUniqueId == EditId(nanoid)
        consultUniqueId == ConsultId(nanoid)
        clash == \E i, j \in DOMAIN data.recipients :
                    i # j /\ data.recipients[i].email = data.recipients[j].email
    IN  IF clash THEN [returned |-> "throw", db |-> unchangedTables]
        ELSE [returned |-> "audit",
              db |-> [unchangedTables EXCEPT
                        !.audits = audits
                            \cup {AuditRow(editUniqueId, consultUniqueId, data)},
                        !.traces = traces
                            \cup {TraceRow(editUniqueId, consultUniqueId)},
                        !.recipients = recipients
                            \cup {RecipientRow(editUniqueId, data.recipients[i])
                                    : i \in DOMAIN data.recipients}]]

\* getAuditWithEditUniqueId: findUnique with AUDIT_EDIT_INCLUDE; {} is null
AuditService_getAuditWithEditUniqueId(uniqueId) ==
    {[audit |-> a,
      recipients |-> OfAudit(recipients, uniqueId),
      tools |-> OfAudit(tools, uniqueId),
      environments |-> OfAudit(environments, uniqueId),
      pages |-> OfAudit(pages, uniqueId)] : a \in findAudit(audits, uniqueId)}

\* (mutant) the trace row deleted with its audit
Mutant_AuditService_deleteAudit(uniqueId) ==
    IF findAudit(audits, uniqueId) = {}
    THEN [returned |-> FALSE, db |-> unchangedTables]
    ELSE LET pages1 == {p \in pages : p.auditUniqueId # uniqueId}
         IN  [returned |-> TRUE,
              db |-> [unchangedTables EXCEPT
                        !.audits = audits \ findAudit(audits, uniqueId),
                        !.traces = {t \in traces : t.auditEditUniqueId # uniqueId},
                        !.recipients = recipients \ OfAudit(recipients, uniqueId),
                        !.tools = tools \ OfAudit(tools, uniqueId),
                        !.environments =
                            environments \ OfAudit(environments, uniqueId),
                        !.pages = pages1,
                        !.results = cascadeResults(results, pages1)]]

\* deleteAudit: prisma.audit.delete; the child rows go with the audit
\* (onDelete: Cascade), the trace stays
AuditService_deleteAudit(uniqueId) ==
    IF findAudit(audits, uniqueId) = {}
    THEN [returned |-> FALSE, db |-> unchangedTables]
    ELSE LET pages1 == {p \in pages : p.auditUniqueId # uniqueId}
         IN  [returned |-> TRUE,
              db |-> [unchangedTables EXCEPT
                        !.audits = audits \ findAudit(audits, uniqueId),
                        !.recipients = recipients \ OfAudit(recipients, uniqueId),
                        !.tools = tools \ OfAudit(tools, uniqueId),
                        !.environments =
                            environments \ OfAudit(environments, uniqueId),
                        !.pages = pages1,
                        !.results = cascadeResults(results, pages1)]]

\* checkIfAuditWasDeleted: a trace row with this edit token exists
AuditService_checkIfAuditWasDeleted(uniqueId) ==
    \E t \in traces : t.auditEditUniqueId = uniqueId

\* (mutant) the publication date written and the edit date left as it was
Mutant_AuditService_publishAudit(uniqueId) ==
    IF findAudit(audits, uniqueId) = {}
    THEN [returned |-> "undefined", db |-> unchangedTables]
    ELSE [returned |-> "audit",
          db |-> [unchangedTables EXCEPT
                    !.audits = {IF a.editUniqueId = uniqueId
                                   THEN [a EXCEPT !.publicationDate = now]
                                   ELSE a : a \in audits}]]

\* publishAudit: prisma.audit.update of the two dates; undefined on P2025
AuditService_publishAudit(uniqueId) ==
    IF findAudit(audits, uniqueId) = {}
    THEN [returned |-> "undefined", db |-> unchangedTables]
    ELSE [returned |-> "audit",
          db |-> [unchangedTables EXCEPT
                    !.audits = {IF a.editUniqueId = uniqueId
                                   THEN [a EXCEPT !.publicationDate = now,
                                                  !.editionDate = NULL]
                                   ELSE a : a \in audits}]]

\* number of criteria of the catalog the model keeps
CatalogSize == 2

\* CRITERIA: the fixed catalog of (topic, criterium) pairs, here
\* 1.1, 1.2, 2.1, 2.2, ...
CRITERIA ==
    [i \in 1..CatalogSize |->
        [topic |-> (i + 1) \div 2, criterium |-> ((i + 1) % 2) + 1]]

\* prisma.auditedPage.findMany({ where: { auditUniqueId } }), in id order
RECURSIVE pagesInOrder(_)
pagesInOrder(rows) ==
    IF rows = {} THEN <<>>
    ELSE LET first == CHOOSE p \in rows : \A q \in rows : p.id <= q.id
         IN  <<first>> \o pagesInOrder(rows \ {first})

\* the placeholder getResultsWithEditUniqueId returns for a pair never scored
placeholderResult(page, criterion) ==
    [status |-> "NOT_TESTED", compliantComment |-> "null", userImpact |-> "null",
     topic |-> criterion.topic, criterium |-> criterion.criterium,
     pageUrl |-> page.url]

\* (mutant) the stored row looked up by topic and criterium alone
Mutant_findExistingResult(existingResults, page, criterion) ==
    {r \in existingResults :
        r.topic = criterion.topic /\ r.criterium = criterion.criterium}

\* existingResults.find(...): the stored rows of (pageUrl, topic, criterium);
\* find returns the first, and the unique key leaves at most one
findExistingResult(existingResults, page, criterion) ==
    {r \in existingResults :
        /\ r.pageUrl = page.url
        /\ r.topic = criterion.topic
        /\ r.criterium = criterion.criterium}

\* getResultsWithEditUniqueId: pages.flatMap(page => CRITERIA.map(...)), the
\* stored row found by (pageUrl, topic, criterium) or the placeholder
AuditService_getResultsWithEditUniqueId(uniqueId) ==
    LET pgs == pagesInOrder(OfAudit(pages, uniqueId))
        existingResults ==
            {r \in results :
                \E p \in pages : /\ p.auditUniqueId = uniqueId
                                 /\ p.auditUniqueId = r.auditUniqueId
                                 /\ p.url = r.pageUrl}
        n == Len(CRITERIA)
        entry(page, criterion) ==
            LET found == findExistingResult(existingResults, page, criterion)
            IN  IF found # {} THEN CHOOSE r \in found : TRUE
                ELSE placeholderResult(page, criterion)
    IN  [k \in 1..(Len(pgs) * n) |->
            entry(pgs[((k - 1) \div n) + 1], CRITERIA[((k - 1) % n) + 1])]

\* (mutant) create in place of upsert: the row is inserted beside the one stored
Mutant_resultUpsert(resultRows, uniqueId, item) ==
    IF ~\E p \in pages : p.auditUniqueId = uniqueId /\ p.url = item.pageUrl
    THEN [code |-> "P2025", results |-> resultRows]
    ELSE [code |-> "OK", results |-> resultRows \cup {ResultRow(uniqueId, item)}]

\* one prisma.criterionResult.upsert of updateResults, keyed by
\* auditUniqueId_pageUrl_topic_criterium; create and update both connect the
\* page by url_auditUniqueId, which fails (P2025) when no such page exists
resultUpsert(resultRows, uniqueId, item) ==
    IF ~\E p \in pages : p.auditUniqueId = uniqueId /\ p.url = item.pageUrl
    THEN [code |-> "P2025", results |-> resultRows]
    ELSE [code |-> "OK",
          results |->
            {r \in resultRows :
                ~(/\ r.auditUniqueId = uniqueId /\ r.pageUrl = item.pageUrl
                  /\ r.topic = item.topic /\ r.criterium = item.criterium)}
                \cup {ResultRow(uniqueId, item)}]

RECURSIVE resultsUpsert(_, _, _)
resultsUpsert(resultRows, uniqueId, list) ==
    IF list = <<>> THEN [code |-> "OK", results |-> resultRows]
    ELSE LET one == resultUpsert(resultRows, uniqueId, Head(list))
         IN  IF one.code # "OK" THEN one
             ELSE resultsUpsert(one.results, uniqueId, Tail(list))

\* The prisma.$transaction of updateResults, [...upserts, updateAuditEditDate],
\* run when new Date() reads date
updateResultsTransaction(uniqueId, body, date) ==
    LET ups == resultsUpsert(results, uniqueId, body)
    IN  prismaTransaction(ups.code,
            [unchangedTables EXCEPT
                !.results = ups.results,
                !.audits = IF ups.code = "OK"
                           THEN updateAuditEditDate(audits, uniqueId, date)
                           ELSE audits])

\* updateResults: prisma.$transaction([...upserts, updateAuditEditDate]); an
\* error is not caught
AuditService_updateResults(uniqueId, body) ==
    LET tx == updateResultsTransaction(uniqueId, body, now)
    IN  [returned |-> IF tx.code = "OK" THEN "void" ELSE "throw", db |-> tx.db]

\* (mutant) the count taken over the matrix get-results returns, placeholders
\* included
Mutant_AuditService_isAuditComplete(uniqueId) ==
    LET matrix == AuditService_getResultsWithEditUniqueId(uniqueId)
    IN  Cardinality({k \in DOMAIN matrix : matrix[k].status = "NOT_TESTED"}) = 0

\* isAuditComplete: count of the stored rows with status NOT_TESTED is 0
AuditService_isAuditComplete(uniqueId) ==
    Cardinality({r \in results :
                    r.auditUniqueId = uniqueId /\ r.status = "NOT_TESTED"}) = 0

\* getAuditReportData: the keys `${c.topic}.${c.criterium}` of groupedCriteria
groupedCriteria(rows) == {<<r.topic, r.criterium>> : r \in rows}

\* groupedCriteria[key]: the results of one criterion, over the pages
criteriaOf(rows, key) == {r \in rows : <<r.topic, r.criterium>> = key}

\* (mutant) applicable only when no result of the group is NOT_APPLICABLE
Mutant_applicableCriteria(rows) ==
    {key \in groupedCriteria(rows) :
        \A c \in criteriaOf(rows, key) : c.status # "NOT_APPLICABLE"}

\* applicableCriteria: the groups with some result that is not NOT_APPLICABLE
applicableCriteria(rows) ==
    {key \in groupedCriteria(rows) :
        \E c \in criteriaOf(rows, key) : c.status # "NOT_APPLICABLE"}

\* compliantCriteria: the applicable groups whose every result is COMPLIANT
\* or NOT_APPLICABLE
compliantCriteria(rows) ==
    {key \in applicableCriteria(rows) :
        \A c \in criteriaOf(rows, key) :
            c.status = "COMPLIANT" \/ c.status = "NOT_APPLICABLE"}

\* (mutant) the rows handed over as they are stored
Mutant_reportResult(r) == r

\* report.results: results.map((r) => ({ pageUrl, topic, criterium, status,
\* compliantComment, ..., userImpact })), the fields copied one by one
reportResult(r) ==
    [pageUrl |-> r.pageUrl, topic |-> r.topic, criterium |-> r.criterium,
     status |-> r.status, compliantComment |-> r.compliantComment,
     userImpact |-> r.userImpact]

\* the number NaN, which is no integer
NaN == -1

\* Math.round((compliant / applicable) * 100): 0 / 0 is NaN and Math.round
\* keeps it; otherwise the nearest integer, a half rounded up
accessibilityRate(compliant, applicable) ==
    IF applicable = 0 THEN NaN
    ELSE (200 * compliant + applicable) \div (2 * applicable)

\* getAuditReportData: the audit found by its consult token, and of the
\* report the fields computed from the criterion results
AuditService_getAuditReportData(consultUniqueId) ==
    LET audit == {a \in audits : a.consultUniqueId = consultUniqueId}
        rows == {r \in results :
                    \E a \in audit : r.auditUniqueId = a.editUniqueId}
        mine == {p \in pages :
                    \E a \in audit : p.auditUniqueId = a.editUniqueId}
        found == CHOOSE a \in audit : TRUE
    IN  IF audit = {} THEN [returned |-> "undefined", report |-> <<>>]
        ELSE [returned |-> "report",
              report |->
                [consultUniqueId |-> found.consultUniqueId,
                 procedureName |-> found.procedureName,
                 publishDate |-> found.publicationDate,
                 updateDate |-> found.editionDate,
                 errorCount |->
                    Cardinality({r \in rows : r.status = "NOT_COMPLIANT"}),
                 applicableCriteriaCount |->
                    Cardinality(applicableCriteria(rows)),
                 accessibilityRate |->
                    accessibilityRate(Cardinality(compliantCriteria(rows)),
                                      Cardinality(applicableCriteria(rows))),
                 samples |-> {[name |-> p.name, url |-> p.url] : p \in mine},
                 results |-> {reportResult(r) : r \in rows}]]

-----------------------------------------------------------------------------
(* AuditsController.  One action is one request: the handler runs to its   *)
(* response, which `last` keeps with the request.  Time passes between    *)
(* requests (Tick).                                                        *)

\* the tables after a service call
Commit(db) ==
    /\ audits' = db.audits
    /\ traces' = db.traces
    /\ recipients' = db.recipients
    /\ tools' = db.tools
    /\ environments' = db.environments
    /\ pages' = db.pages
    /\ results' = db.results
    /\ nextPageId' = db.nextPageId

NoData == <<>>

Response(op, uniqueId, data, status, body) ==
    [op |-> op, uniqueId |-> uniqueId, data |-> data, status |-> status,
     body |-> body]

\* private sendAuditNotFoundStatus: GoneException or NotFoundException
sendAuditNotFoundStatus(editUniqueId) ==
    IF AuditService_checkIfAuditWasDeleted(editUniqueId) THEN "Gone"
    ELSE "NotFound"

\* JavaScript: !results is false for every array, the empty one included
isFalsy(array) == FALSE

\* POST /audits
AuditsController_createAudit(data) ==
    LET r == AuditService_createAudit(data)
    IN  /\ nanoid <= MaxAudits
        /\ Commit(r.db)
        /\ last' = IF r.returned = "throw"
                   THEN Response("createAudit", NoData, data,
                                 "InternalServerError", NoData)
                   ELSE Response("createAudit", EditId(nanoid), data, "Created",
                                 ConsultId(nanoid))
        /\ UNCHANGED <<now, pending, store>>

\* GET /audits/:uniqueId
AuditsController_getAudit(uniqueId) ==
    LET audit == AuditService_getAuditWithEditUniqueId(uniqueId)
    IN  /\ last' = IF audit = {}
                   THEN Response("getAudit", uniqueId, NoData,
                                 sendAuditNotFoundStatus(uniqueId), NoData)
                   ELSE Response("getAudit", uniqueId, NoData, "OK",
                                 CHOOSE a \in audit : TRUE)
        /\ UNCHANGED <<tables, now, nextPageId, pending, store>>

\* PUT /audits/:uniqueId
AuditsController_updateAudit(uniqueId, data) ==
    LET r == AuditService_updateAudit(uniqueId, data)
    IN  /\ nextPageId + Len(newPagesOf(data.pages)) <= MaxPageId + 1
        /\ Commit(r.db)
        /\ last' = Response("updateAudit", uniqueId, data,
                            CASE r.returned = "audit" -> "OK"
                              [] r.returned = "undefined" ->
                                    sendAuditNotFoundStatus(uniqueId)
                              [] OTHER -> "InternalServerError",
                            NoData)
        /\ UNCHANGED <<now, pending, store>>

\* GET /audits/:uniqueId/results
AuditsController_getAuditResults(uniqueId) ==
    LET res == AuditService_getResultsWithEditUniqueId(uniqueId)
    IN  /\ last' = IF isFalsy(res)
                   THEN Response("getAuditResults", uniqueId, NoData,
                                 sendAuditNotFoundStatus(uniqueId), NoData)
                   ELSE Response("getAuditResults", uniqueId, NoData, "OK", res)
        /\ UNCHANGED <<tables, now, nextPageId, pending, store>>

\* PATCH /audits/:uniqueId/results
AuditsController_updateAuditResults(uniqueId, body) ==
    LET audit == AuditService_getAuditWithEditUniqueId(uniqueId)
        r == AuditService_updateResults(uniqueId, body)
    IN  IF audit = {}
        THEN /\ last' = Response("updateAuditResults", uniqueId, body,
                                 sendAuditNotFoundStatus(uniqueId), NoData)
             /\ UNCHANGED <<tables, now, nextPageId, pending, store>>
        ELSE /\ Commit(r.db)
             /\ last' = Response("updateAuditResults", uniqueId, body,
                                 IF r.returned = "throw"
                                    THEN "InternalServerError" ELSE "OK",
                                 NoData)
             /\ UNCHANGED <<now, pending, store>>

\* PUT /audits/:uniqueId/publish
AuditsController_publishAudit(uniqueId) ==
    LET r == AuditService_publishAudit(uniqueId)
    IN  IF ~AuditService_isAuditComplete(uniqueId)
        THEN /\ last' = Response("publishAudit", uniqueId, NoData, "Conflict",
                                 NoData)
             /\ UNCHANGED <<tables, now, nextPageId, pending, store>>
        ELSE /\ Commit(r.db)
             /\ last' = Response("publishAudit", uniqueId, NoData,
                                 IF r.returned = "undefined"
                                    THEN sendAuditNotFoundStatus(uniqueId)
                                    ELSE "OK",
                                 NoData)
             /\ UNCHANGED <<now, pending, store>>

\* DELETE /audits/:uniqueId
AuditsController_deleteAudit(uniqueId) ==
    LET r == AuditService_deleteAudit(uniqueId)
    IN  /\ Commit(r.db)
        /\ last' = Response("deleteAudit", uniqueId, NoData,
                            IF r.returned THEN "OK"
                            ELSE sendAuditNotFoundStatus(uniqueId),
                            NoData)
        /\ UNCHANGED <<now, pending, store>>

\* the report of an audit asked for by its consult token
getAuditReport(consultUniqueId) ==
    LET r == AuditService_getAuditReportData(consultUniqueId)
    IN  /\ last' = Response("getAuditReport", consultUniqueId, NoData,
                            IF r.returned = "undefined" THEN "undefined"
                            ELSE "OK",
                            r.report)
        /\ UNCHANGED <<tables, now, nextPageId, pending, store>>

\* a request whose handler is suspended at an await
Request(op, uniqueId, data) == [op |-> op, uniqueId |-> uniqueId, data |-> data]

\* number of requests that may be suspended at once
MaxPending == 2

\* PATCH /audits/:uniqueId/results up to its first await: the handler looks
\* the audit up and answers when there is none; otherwise it goes on to
\* updateResults, and other requests may be served before it does
AuditsController_updateAuditResults_lookup(uniqueId, body) ==
    LET audit == AuditService_getAuditWithEditUniqueId(uniqueId)
    IN  IF audit = {}
        THEN /\ last' = Response("updateAuditResults", uniqueId, body,
                                 sendAuditNotFoundStatus(uniqueId), NoData)
             /\ UNCHANGED <<tables, now, nextPageId, pending, store>>
        ELSE /\ Cardinality(pending) < MaxPending
             /\ pending' = pending \cup
                    {Request("updateAuditResults", uniqueId, body)}
             /\ last' = Response("await", uniqueId, body, "none", NoData)
             /\ UNCHANGED <<tables, now, nextPageId, store>>

\* PATCH /audits/:uniqueId/results from its second await on: updateResults
\* runs against the tables as they are by then
AuditsController_updateAuditResults_write(request) ==
    LET r == AuditService_updateResults(request.uniqueId, request.data)
    IN  /\ request \in pending
        /\ request.op = "updateAuditResults"
        /\ pending' = pending \ {request}
        /\ Commit(r.db)
        /\ last' = Response("updateAuditResults", request.uniqueId,
                            request.data,
                            IF r.returned = "throw"
                               THEN "InternalServerError" ELSE "OK",
                            NoData)
        /\ UNCHANGED <<now, store>>

\* PUT /audits/:uniqueId received: the handler is suspended at
\* await updateAudit until the store commits its transaction.  `alone` records
\* what the call would return and leave if it were served at once.
AuditsController_updateAudit_receive(uniqueId, data) ==
    /\ Cardinality(pending) < MaxPending
    /\ pending' = pending \cup
            {[op |-> "updateAudit", uniqueId |-> uniqueId, data |-> data,
              alone |-> AuditService_updateAudit(uniqueId, data)]}
    /\ last' = Response("await", uniqueId, data, "none", NoData)
    /\ UNCHANGED <<tables, now, nextPageId, store>>

\* PUT /audits/:uniqueId answered: the transaction of updateAudit commits
\* against the tables as they are by then
AuditsController_updateAudit_commit(request) ==
    LET r == AuditService_updateAudit(request.uniqueId, request.data)
    IN  /\ request \in pending
        /\ request.op = "updateAudit"
        /\ nextPageId + Len(newPagesOf(request.data.pages)) <= MaxPageId + 1
        /\ pending' = pending \ {request}
        /\ Commit(r.db)
        /\ last' = Response("updateAudit", request.uniqueId, request.data,
                            CASE r.returned = "audit" -> "OK"
                              [] r.returned = "undefined" ->
                                    sendAuditNotFoundStatus(request.uniqueId)
                              [] OTHER -> "InternalServerError",
                            NoData)
        /\ UNCHANGED <<now, store>>

\* PUT /audits/:uniqueId/publish up to its first await: the completion check
\* answers Conflict, or the handler goes on to publishAudit, and other
\* requests may be served before it does
AuditsController_publishAudit_check(uniqueId) ==
    IF ~AuditService_isAuditComplete(uniqueId)
    THEN /\ last' = Response("publishAudit", uniqueId, NoData, "Conflict",
                             NoData)
         /\ UNCHANGED <<tables, now, nextPageId, pending, store>>
    ELSE /\ Cardinality(pending) < MaxPending
         /\ pending' = pending \cup {Request("publishAudit", uniqueId, NoData)}
         /\ last' = Response("await", uniqueId, NoData, "none", NoData)
         /\ UNCHANGED <<tables, now, nextPageId, store>>

\* PUT /audits/:uniqueId/publish from its second await on: publishAudit
\* writes the dates of the audit as it is by then
AuditsController_publishAudit_write(request) ==
    LET r == AuditService_publishAudit(request.uniqueId)
    IN  /\ request \in pending
        /\ request.op = "publishAudit"
        /\ pending' = pending \ {request}
        /\ Commit(r.db)
        /\ last' = Response("publishAudit", request.uniqueId, NoData,
                            IF r.returned = "undefined"
                               THEN sendAuditNotFoundStatus(request.uniqueId)
                               ELSE "OK",
                            NoData)
        /\ UNCHANGED <<now, store>>

\* time passes: new Date() reads a later instant from now on
Tick ==
    /\ now < MaxClock
    /\ now' = now + 1
    /\ last' = Response("tick", NoData, NoData, "none", NoData)
    /\ UNCHANGED <<tables, nextPageId, pending, store>>

\* the store before the first request
Init ==
    /\ audits = {}
    /\ traces = {}
    /\ recipients = {}
    /\ tools = {}
    /\ environments = {}
    /\ pages = {}
    /\ results = {}
    /\ now = 1
    /\ nextPageId = 1
    /\ last = Response("none", NoData, NoData, "none", NoData)
    /\ pending = {}
    /\ store = [fetched |-> FALSE, data |-> <<>>, previousStatuses |-> <<>>]

-----------------------------------------------------------------------------
(* Request payloads.                                                       *)

UpdateAuditDto(procedureName, recipientList, toolList, environmentList, pageList) ==
    [procedureName |-> procedureName, recipients |-> recipientList,
     tools |-> toolList, environments |-> environmentList, pages |-> pageList]

CreateAuditDto(procedureName, recipientList) ==
    [procedureName |-> procedureName, recipients |-> recipientList]

\* longest list a payload carries
MaxList == 2

ToolItems ==
    [name : {"axe", "wave"}, function : {"scan", "contrast"}, url : {"https://t"}]

EnvironmentItem(platform, browser) ==
    [platform |-> platform, operatingSystem |-> "Linux",
     operatingSystemVersion |-> "6", assistiveTechnology |-> "Orca",
     assistiveTechnologyVersion |-> "44", browser |-> browser,
     browserVersion |-> "120"]

EnvironmentItems ==
    {EnvironmentItem(pl, br) : pl \in {"desktop", "mobile"},
                               br \in {"Firefox", "Chrome"}}

-----------------------------------------------------------------------------
(* Tools and environments of one audit under update-audit.                 *)

ToolsDtos ==
    {UpdateAuditDto("proc", <<>>, tl, el, <<>>) :
        tl \in SeqsUpTo(ToolItems, MaxList),
        el \in SeqsUpTo({EnvironmentItem("desktop", "Firefox"),
                         EnvironmentItem("mobile", "Chrome")}, MaxList - 1)}

NextTools ==
    \/ /\ nanoid <= 1
       /\ AuditsController_createAudit(CreateAuditDto("proc", <<>>))
    \/ \E data \in ToolsDtos :
            AuditsController_updateAudit(EditId(1), data)
    \/ AuditsController_getAudit(EditId(1))

SpecTools == Init /\ [][NextTools]_vars

\* C1: after a successful update-audit the audit's tools are exactly the tools
\* of the payload and its environments exactly the environments of the
\* payload, compared by their whole natural key: no persisted row outside
\* the payload survives and no payload item is missing.
C1_ToolsAndEnvironmentsEqualPayload ==
    (last.op = "updateAudit" /\ last.status = "OK") =>
        /\ OfAudit(tools, last.uniqueId)
              = {ToolRow(last.uniqueId, t) : t \in Range(last.data.tools)}
        /\ OfAudit(environments, last.uniqueId)
              = {EnvironmentRow(last.uniqueId, e)
                    : e \in Range(last.data.environments)}

-----------------------------------------------------------------------------
(* Pages of an audit under update-audit.                                   *)

PageItems == [id : 0..MaxPageId, name : {"Home", "Contact"}, url : {"/a", "/b"}]

PagesDtos ==
    {UpdateAuditDto("proc", <<>>, <<>>, <<>>, pl) :
        pl \in SeqsUpTo(PageItems, MaxList)}

NextPages ==
    \/ /\ nanoid <= 1
       /\ AuditsController_createAudit(CreateAuditDto("proc", <<>>))
    \/ \E data \in PagesDtos : AuditsController_updateAudit(EditId(1), data)
    \/ AuditsController_getAudit(EditId(1))

SpecPages == Init /\ [][NextPages]_vars

\* C2: a successful update-audit leaves the audit with exactly the payload's
\* pages: every identifier of the payload still names a page, which carries
\* the name and url of the payload item with that identifier (the later one
\* when two items carry the same identifier); every page persisted before
\* whose identifier the payload does not carry is deleted; and every payload
\* item without an identifier is a row inserted under an identifier no page
\* had before.
C2_PagesEqualPayload ==
    [][(last'.op = "updateAudit" /\ last'.status = "OK") =>
        LET u == last'.uniqueId
            list == last'.data.pages
            withId == {i \in DOMAIN list : list[i].id # NoId}
            noId == {i \in DOMAIN list : list[i].id = NoId}
            lastOf(id) ==
                list[CHOOSE i \in withId :
                        /\ list[i].id = id
                        /\ \A j \in withId : list[j].id = id => j <= i]
            after == OfAudit(pages', u)
            kept == {p \in after : p.id \in {q.id : q \in OfAudit(pages, u)}}
            fresh == after \ kept
        IN  /\ \A i \in withId :
                \E p \in after : /\ p.id = list[i].id
                                 /\ p.name = lastOf(list[i].id).name
                                 /\ p.url = lastOf(list[i].id).url
            /\ {p.id : p \in kept} = {list[i].id : i \in withId}
            /\ Cardinality(after) = Cardinality({p.id : p \in after})
            /\ \A p \in fresh : p.id \notin {q.id : q \in pages}
            /\ Cardinality(fresh) = Cardinality(noId)
            /\ \A i \in noId :
                \E p \in fresh : p.name = list[i].name /\ p.url = list[i].url
            /\ \A p \in fresh :
                \E i \in noId : p.name = list[i].name /\ p.url = list[i].url
      ]_vars

\* C2 witness: an update that renamed and moved the page it kept under its
\* identifier and inserted a second page
C2_Witness ==
    /\ last.op = "updateAudit" /\ last.status = "OK"
    /\ \E i, j \in DOMAIN last.data.pages :
            /\ last.data.pages[i].id = 1 /\ last.data.pages[j].id = NoId
            /\ PageRow(1, last.uniqueId, last.data.pages[i]) \in pages
            /\ PageRow(2, last.uniqueId, last.data.pages[j]) \in pages
            /\ last.data.pages[i].name = "Contact"
            /\ last.data.pages[i].url = "/b"
    /\ Cardinality(OfAudit(pages, last.uniqueId)) = 2

-----------------------------------------------------------------------------
(* Recipients of an audit under update-audit, beside a second audit.       *)

RecipientItems == [email : {"a@x", "b@x", "c@x"}, name : {"Ann", "Bob"}]

RecipientsDtos ==
    {UpdateAuditDto("proc", rl, <<>>, <<>>, <<>>) :
        rl \in SeqsUpTo(RecipientItems, MaxList)}

CreateWithRecipientsDtos ==
    {CreateAuditDto("proc", rl) :
        rl \in {<<>>,
                <<[email |-> "a@x", name |-> "Ann"]>>,
                <<[email |-> "a@x", name |-> "Ann"],
                  [email |-> "b@x", name |-> "Ann"]>>,
                <<[email |-> "c@x", name |-> "Bob"],
                  [email |-> "c@x", name |-> "Ann"]>>}}

NextRecipients ==
    \/ \E data \in CreateWithRecipientsDtos : AuditsController_createAudit(data)
    \/ \E data \in RecipientsDtos : AuditsController_updateAudit(EditId(1), data)
    \/ \E uniqueId \in EditIds : AuditsController_getAudit(uniqueId)

SpecRecipients == Init /\ [][NextRecipients]_vars

\* C3: a successful update-audit leaves the audit with exactly one recipient
\* per email of the payload, carrying the fields of the payload item with that
\* email (the later one when two items carry the same email): recipients whose
\* email the payload lacks are deleted, the others updated or inserted; the
\* recipients of every other audit are as they were.
C3_RecipientsEqualPayload ==
    [][(last'.op = "updateAudit" /\ last'.status = "OK") =>
        LET u == last'.uniqueId
            list == last'.data.recipients
            lastOf(email) ==
                list[CHOOSE i \in DOMAIN list :
                        /\ list[i].email = email
                        /\ \A j \in DOMAIN list : list[j].email = email => j <= i]
        IN  /\ OfAudit(recipients', u)
                  = {RecipientRow(u, lastOf(list[i].email)) : i \in DOMAIN list}
            /\ {r \in recipients' : r.auditUniqueId # u}
                  = {r \in recipients : r.auditUniqueId # u}
      ]_vars

\* C3 witness: the first audit now holds the payload's two recipients, one of
\* them under a name the second audit's recipient of that email does not have
C3_Witness ==
    /\ last.op = "updateAudit" /\ last.status = "OK"
    /\ Len(last.data.recipients) = 2
    /\ Cardinality(OfAudit(recipients, EditId(1))) = 2
    /\ RecipientRow(EditId(1), [email |-> "a@x", name |-> "Bob"]) \in recipients
    /\ RecipientRow(EditId(2), [email |-> "a@x", name |-> "Ann"]) \in recipients
    /\ RecipientRow(EditId(2), [email |-> "b@x", name |-> "Ann"]) \in recipients

-----------------------------------------------------------------------------
(* update-audit as one transaction: payloads that write the scalar columns *)
(* and all four collections, some of which fail on their pages after the   *)
(* other nested writes ran.                                                *)

AtomicDtos ==
    LET profile(k) ==
            IF k = 0 THEN <<"proc", <<>>, <<>>, <<>>>>
            ELSE IF k = 1
            THEN <<"proc-1", <<[email |-> "a@x", name |-> "Ann"]>>,
                   <<[name |-> "axe", function |-> "scan", url |-> "https://t"]>>,
                   <<EnvironmentItem("desktop", "Firefox")>>>>
            ELSE <<"proc-2", <<[email |-> "b@x", name |-> "Bob"]>>,
                   <<[name |-> "wave", function |-> "contrast",
                      url |-> "https://t"]>>,
                   <<EnvironmentItem("mobile", "Chrome")>>>>
        new(url) == [id |-> NoId, name |-> "Home", url |-> url]
        old(id, url) == [id |-> id, name |-> "Contact", url |-> url]
        pageLists == {<<>>, <<new("/a")>>, <<old(1, "/b")>>, <<old(2, "/a")>>,
                      <<new("/a"), new("/a")>>, <<old(1, "/a"), new("/a")>>}
    IN  {UpdateAuditDto(profile(k)[1], profile(k)[2], profile(k)[3],
                        profile(k)[4], pl) : k \in 0..2, pl \in pageLists}

NextAtomic ==
    \/ /\ nanoid <= 1
       /\ AuditsController_createAudit(
            CreateAuditDto("proc", <<[email |-> "c@x", name |-> "Ann"]>>))
    \/ \E data \in AtomicDtos : AuditsController_updateAudit(EditId(1), data)
    \/ AuditsController_publishAudit(EditId(1))
    \/ AuditsController_getAudit(EditId(1))
    \/ AuditsController_getAuditResults(EditId(1))
    \/ Tick

SpecAtomic == Init /\ [][NextAtomic]_vars

-----------------------------------------------------------------------------
(* Results of one audit: update-results, get-results, the completion check *)
(* and publish-audit.                                                      *)

\* status with the comment and impact that go with it
Judgements ==
    {[status |-> "COMPLIANT", compliantComment |-> "fine", userImpact |-> "null"],
     [status |-> "NOT_COMPLIANT", compliantComment |-> "null",
      userImpact |-> "BLOCKING"],
     [status |-> "NOT_TESTED", compliantComment |-> "null", userImpact |-> "null"]}

ResultItem(pageUrl, criterion, judgement) ==
    [pageUrl |-> pageUrl, topic |-> criterion.topic,
     criterium |-> criterion.criterium, status |-> judgement.status,
     compliantComment |-> judgement.compliantComment,
     userImpact |-> judgement.userImpact]

\* the results a batch may carry: any judgement of any criterion of page /a,
\* and one result of a page /b that the audit does not have
ResultItems ==
    {ResultItem("/a", c, j) : c \in Range(CRITERIA), j \in Judgements}
        \cup {ResultItem("/b", CRITERIA[1], j) :
                j \in {x \in Judgements : x.status = "COMPLIANT"}}

UpdateResultsDtos == SeqsUpTo(ResultItems, MaxList)

ResultsPagesDtos ==
    {UpdateAuditDto("proc", <<>>, <<>>, <<>>, pl) :
        pl \in {<<>>,
                <<[id |-> NoId, name |-> "Home", url |-> "/a"]>>,
                <<[id |-> 1, name |-> "Contact", url |-> "/a"]>>}}

Next ==
    \/ /\ nanoid <= 1
       /\ AuditsController_createAudit(CreateAuditDto("proc", <<>>))
    \/ \E data \in ResultsPagesDtos :
            AuditsController_updateAudit(EditId(1), data)
    \/ \E body \in UpdateResultsDtos :
            AuditsController_updateAuditResults(EditId(1), body)
    \/ AuditsController_getAuditResults(EditId(1))
    \/ AuditsController_publishAudit(EditId(1))

Spec == Init /\ [][Next]_vars

\* a stored result row of the audit with status NOT_TESTED exists
HasStoredNotTested(uniqueId) ==
    \E r \in results : r.auditUniqueId = uniqueId /\ r.status = "NOT_TESTED"

\* C5: publish-audit answers Conflict and changes no table whenever a stored
\* result of the audit has status NOT_TESTED; otherwise, on a live audit, it
\* answers OK, sets the publication date to the current instant and clears
\* the edit date.
C5_PublishOnlyWithoutNotTested ==
    [][last'.op = "publishAudit" =>
        LET u == last'.uniqueId
        IN  IF HasStoredNotTested(u)
            THEN last'.status = "Conflict" /\ UNCHANGED <<tables, nextPageId>>
            ELSE findAudit(audits, u) # {} =>
                    /\ last'.status = "OK"
                    /\ findAudit(audits', u) # {}
                    /\ \A a \in findAudit(audits', u) :
                            /\ a.publicationDate # NULL
                            /\ a.publicationDate = now
                            /\ a.editionDate = NULL
      ]_vars

\* C5 witness: publish refused on an audit that was published and then
\* edited, a NOT_TESTED result having been stored since
C5_Witness ==
    /\ last.op = "publishAudit" /\ last.status = "Conflict"
    /\ \E a \in findAudit(audits, last.uniqueId) :
            a.publicationDate # NULL /\ a.editionDate # NULL
    /\ HasStoredNotTested(last.uniqueId)

\* C6: the completion check is true exactly when no stored result row of the
\* audit has status NOT_TESTED: true with no stored row at all, false as soon
\* as get-results shows a stored NOT_TESTED row, and indifferent to the
\* NOT_TESTED placeholders get-results adds for pairs never scored.
C6_CompleteIffNoStoredNotTested ==
    \A u \in EditIds :
        LET matrix == AuditService_getResultsWithEditUniqueId(u)
        IN  /\ AuditService_isAuditComplete(u) <=> ~HasStoredNotTested(u)
            /\ OfAudit(results, u) = {} => AuditService_isAuditComplete(u)
            /\ (\E k \in DOMAIN matrix :
                    matrix[k].status = "NOT_TESTED" /\ matrix[k] \in results)
                    => ~AuditService_isAuditComplete(u)

\* C6 witness: an audit just published, hence complete, with a stored result
\* and a NOT_TESTED placeholder in what get-results returns
C6_Witness ==
    /\ last.op = "publishAudit" /\ last.status = "OK"
    /\ AuditService_isAuditComplete(last.uniqueId)
    /\ OfAudit(results, last.uniqueId) # {}
    /\ LET matrix == AuditService_getResultsWithEditUniqueId(last.uniqueId)
       IN  \E k \in DOMAIN matrix :
                matrix[k].status = "NOT_TESTED" /\ matrix[k] \notin results

\* the unique key of a stored result, the page being named by its url
ResultKey(r) == <<r.auditUniqueId, r.pageUrl, r.topic, r.criterium>>

\* C10: at most one result row is stored per (page, topic, criterion), and a
\* successful update-results leaves, for every triple its batch names, the
\* single row carrying the status, comment and impact of the batch's tuple
\* for that triple (the later one when two tuples name it), whether or not a
\* row was stored before; the rows of the triples the batch does not name are
\* as they were.
C10_OneRowPerTriple ==
    [][/\ \A r1, r2 \in results' : ResultKey(r1) = ResultKey(r2) => r1 = r2
       /\ (last'.op = "updateAuditResults" /\ last'.status = "OK") =>
            LET u == last'.uniqueId
                body == last'.data
                key(item) == <<u, item.pageUrl, item.topic, item.criterium>>
                named == {key(body[i]) : i \in DOMAIN body}
                lastOf(k) ==
                    body[CHOOSE i \in DOMAIN body :
                            /\ key(body[i]) = k
                            /\ \A j \in DOMAIN body : key(body[j]) = k => j <= i]
            IN  /\ \A k \in named :
                    {r \in results' : ResultKey(r) = k}
                        = {ResultRow(u, lastOf(k))}
                /\ {r \in results' : ResultKey(r) \notin named}
                        = {r \in results : ResultKey(r) \notin named}
      ]_vars

\* C10 witness: a batch whose two tuples name one triple with two statuses
\* left the later one, beside the row of another triple
C10_Witness ==
    /\ last.op = "updateAuditResults" /\ last.status = "OK"
    /\ Len(last.data) = 2
    /\ ResultKey(ResultRow(last.uniqueId, last.data[1]))
            = ResultKey(ResultRow(last.uniqueId, last.data[2]))
    /\ last.data[1].status # last.data[2].status
    /\ ResultRow(last.uniqueId, last.data[2]) \in results
    /\ Cardinality(OfAudit(results, last.uniqueId)) = 2

-----------------------------------------------------------------------------
(* get-results over an audit of up to two pages.                           *)

MatrixPagesDtos ==
    {UpdateAuditDto("proc", <<>>, <<>>, <<>>, pl) :
        pl \in {<<>>,
                <<[id |-> NoId, name |-> "Home", url |-> "/a"]>>,
                <<[id |-> NoId, name |-> "Home", url |-> "/a"],
                  [id |-> NoId, name |-> "Contact", url |-> "/b"]>>,
                <<[id |-> 1, name |-> "Home", url |-> "/b"]>>,
                <<[id |-> 2, name |-> "Contact", url |-> "/a"]>>}}

MatrixResultsDtos ==
    SeqsUpTo({ResultItem(url, c, j) : url \in {"/a", "/b"},
                                      c \in Range(CRITERIA), j \in Judgements},
             MaxList - 1)

NextMatrix ==
    \/ /\ nanoid <= 1
       /\ AuditsController_createAudit(CreateAuditDto("proc", <<>>))
    \/ \E data \in MatrixPagesDtos :
            AuditsController_updateAudit(EditId(1), data)
    \/ \E body \in MatrixResultsDtos :
            AuditsController_updateAuditResults(EditId(1), body)
    \/ AuditsController_getAuditResults(EditId(1))

SpecMatrix == Init /\ [][NextMatrix]_vars

\* C9: for a live audit get-results answers with as many entries as the
\* audit has pages times the catalog has criteria, exactly one per page and
\* catalog criterion: the stored row of that page, topic and criterion when
\* there is one, otherwise a placeholder of status NOT_TESTED with empty
\* comments.
C9_ResultsMatrix ==
    (last.op = "getAuditResults" /\ findAudit(audits, last.uniqueId) # {}) =>
        LET u == last.uniqueId
            body == last.body
            mine == OfAudit(pages, u)
        IN  /\ last.status = "OK"
            /\ Len(body) = Cardinality(mine) * Len(CRITERIA)
            /\ \A p \in mine, c \in DOMAIN CRITERIA :
                LET at == {k \in DOMAIN body :
                            /\ body[k].pageUrl = p.url
                            /\ body[k].topic = CRITERIA[c].topic
                            /\ body[k].criterium = CRITERIA[c].criterium}
                    stored == {r \in results :
                                /\ r.auditUniqueId = u
                                /\ r.pageUrl = p.url
                                /\ r.topic = CRITERIA[c].topic
                                /\ r.criterium = CRITERIA[c].criterium}
                IN  /\ Cardinality(at) = 1
                    /\ \A k \in at :
                        IF stored # {} THEN body[k] \in stored
                        ELSE /\ body[k].status = "NOT_TESTED"
                             /\ body[k].compliantComment = "null"
                             /\ body[k].userImpact = "null"
                             /\ body[k] \notin results

\* C9 witness: the matrix of an audit of two pages, one entry of it a stored
\* row that is not NOT_TESTED and another a placeholder
C9_Witness ==
    /\ last.op = "getAuditResults" /\ last.status = "OK"
    /\ Cardinality(OfAudit(pages, last.uniqueId)) = 2
    /\ Len(last.body) = 2 * Len(CRITERIA)
    /\ \E k \in DOMAIN last.body :
            last.body[k] \in results /\ last.body[k].status = "COMPLIANT"
    /\ \E k \in DOMAIN last.body : last.body[k] \notin results

-----------------------------------------------------------------------------
(* Two audits and every token a request may carry: live, deleted and never *)
(* issued.                                                                 *)

GonePagesDtos ==
    {UpdateAuditDto("proc", <<>>, <<>>, <<>>, pl) :
        pl \in {<<>>, <<[id |-> NoId, name |-> "Home", url |-> "/a"]>>}}

GoneResultsDtos ==
    {<<>>} \cup {<<ResultItem("/a", CRITERIA[1], j)>> : j \in Judgements}

NextGone ==
    \/ AuditsController_createAudit(CreateAuditDto("proc", <<>>))
    \/ \E uniqueId \in RequestIds : AuditsController_getAudit(uniqueId)
    \/ \E uniqueId \in RequestIds, data \in GonePagesDtos :
            AuditsController_updateAudit(uniqueId, data)
    \/ \E uniqueId \in RequestIds : AuditsController_getAuditResults(uniqueId)
    \/ \E uniqueId \in RequestIds, body \in GoneResultsDtos :
            AuditsController_updateAuditResults(uniqueId, body)
    \/ \E uniqueId \in RequestIds : AuditsController_publishAudit(uniqueId)
    \/ \E uniqueId \in RequestIds : AuditsController_deleteAudit(uniqueId)

SpecGone == Init /\ [][NextGone]_vars

\* a trace row holds the edit token and no audit does: the audit was deleted
WasDeleted(uniqueId) ==
    /\ \E t \in traces : t.auditEditUniqueId = uniqueId
    /\ findAudit(audits, uniqueId) = {}

\* create-audit never issued the token as an edit token
NeverIssued(uniqueId) == ~\E t \in traces : t.auditEditUniqueId = uniqueId

\* C7: a successful delete-audit leaves the audit deleted, a deleted audit
\* stays deleted in every later state, and get-audit, update-audit,
\* publish-audit and delete-audit answer Gone for the edit token of a deleted
\* audit and Not Found for a token create-audit never issued.
C7_GoneAfterDelete ==
    [][\A u \in RequestIds :
        /\ WasDeleted(u) => WasDeleted(u)'
        /\ last'.uniqueId = u =>
            /\ (last'.op = "deleteAudit" /\ last'.status = "OK")
                    => WasDeleted(u)'
            /\ last'.op \in {"getAudit", "updateAudit",
                             "publishAudit", "deleteAudit"}
                    => /\ WasDeleted(u) => last'.status = "Gone"
                       /\ NeverIssued(u) => last'.status = "NotFound"
      ]_vars

\* C7 witness: publish-audit answered Gone for the first audit, deleted, while
\* the second audit is live
C7_Witness ==
    /\ last.op = "publishAudit" /\ last.status = "Gone"
    /\ last.uniqueId = EditId(1)
    /\ WasDeleted(EditId(1))
    /\ findAudit(audits, EditId(2)) # {}

\* C8: get-results and update-results addressed by a token no live audit
\* holds answer Gone when a trace row holds the token and Not Found when none
\* does, never with a success payload.
C8_ResultsOfMissingAudit ==
    (/\ last.op \in {"getAuditResults", "updateAuditResults"}
     /\ findAudit(audits, last.uniqueId) = {})
        => last.status = IF NeverIssued(last.uniqueId) THEN "NotFound" ELSE "Gone"

-----------------------------------------------------------------------------
(* One audit that is published and then edited while the clock runs.       *)

StampPagesDtos ==
    {UpdateAuditDto("proc", <<>>, <<>>, <<>>, pl) :
        pl \in {<<>>,
                <<[id |-> NoId, name |-> "Home", url |-> "/a"]>>,
                <<[id |-> 1, name |-> "Home", url |-> "/a"]>>}}

StampResultItems ==
    {ResultItem("/a", CRITERIA[1],
        [status |-> "COMPLIANT", compliantComment |-> "fine",
         userImpact |-> "null"]),
     ResultItem("/a", CRITERIA[1],
        [status |-> "NOT_COMPLIANT", compliantComment |-> "null",
         userImpact |-> "BLOCKING"]),
     ResultItem("/b", CRITERIA[1],
        [status |-> "COMPLIANT", compliantComment |-> "fine",
         userImpact |-> "null"])}

StampResultsDtos == SeqsUpTo(StampResultItems, MaxList)

NextStamp ==
    \/ /\ nanoid <= 1
       /\ AuditsController_createAudit(CreateAuditDto("proc", <<>>))
    \/ \E data \in StampPagesDtos :
            AuditsController_updateAudit(EditId(1), data)
    \/ \E body \in StampResultsDtos :
            AuditsController_updateAuditResults(EditId(1), body)
    \/ AuditsController_publishAudit(EditId(1))
    \/ Tick

SpecStamp == Init /\ [][NextStamp]_vars

\* every tuple of the batch names a page the audit has
AllApplicable(uniqueId, body) ==
    \A i \in DOMAIN body :
        \E p \in pages : p.auditUniqueId = uniqueId /\ p.url = body[i].pageUrl

\* C11: update-results on a live audit applies its batch atomically with the
\* edit-date stamp: when some tuple cannot be applied (its page is not in the
\* audit) no result row and no audit field changes; otherwise every tuple is
\* persisted in the one step (the last tuple of each key, when the batch
\* repeats a key).
C11_UpdateResultsAllOrNothing ==
    [][(/\ last'.op = "updateAuditResults"
        /\ findAudit(audits, last'.uniqueId) # {})
        => LET u == last'.uniqueId
               body == last'.data
           IN  IF AllApplicable(u, body)
               THEN /\ last'.status = "OK"
                    /\ \A i \in DOMAIN body :
                        \/ ResultRow(u, body[i]) \in results'
                        \/ \E j \in DOMAIN body :
                            /\ j > i
                            /\ ResultKey(ResultRow(u, body[j]))
                                    = ResultKey(ResultRow(u, body[i]))
               ELSE /\ last'.status = "InternalServerError"
                    /\ results' = results
                    /\ audits' = audits
      ]_vars

\* C11 witness: a batch whose first tuple applies and whose second does not
\* was refused on a published audit at a later instant than its last edit
C11_Witness ==
    /\ last.op = "updateAuditResults"
    /\ last.status = "InternalServerError"
    /\ Len(last.data) = 2
    /\ \E p \in pages : p.auditUniqueId = last.uniqueId /\ p.url = last.data[1].pageUrl
    /\ ResultRow(last.uniqueId, last.data[1]) \notin results
    /\ \E a \in findAudit(audits, last.uniqueId) :
            a.publicationDate # NULL /\ a.editionDate # now

\* C12: a successful update-audit or update-results on a published audit sets
\* the edit date to the instant of the call and leaves the publication date
\* as it was; on an audit never published both dates stay unset.
C12_EditDateStamped ==
    [][(/\ last'.op \in {"updateAudit", "updateAuditResults"}
        /\ last'.status = "OK")
        => \A a \in findAudit(audits, last'.uniqueId) :
            \E b \in findAudit(audits', last'.uniqueId) :
                /\ b.publicationDate = a.publicationDate
                /\ b.editionDate = IF a.publicationDate # NULL THEN now
                                   ELSE NULL
      ]_vars

\* C12 witness: update-audit succeeded on an audit published at an earlier
\* instant, and the edit date is the instant of the call
C12_Witness ==
    /\ last.op = "updateAudit" /\ last.status = "OK"
    /\ \E a \in findAudit(audits, last.uniqueId) :
            /\ a.publicationDate # NULL
            /\ a.publicationDate < now
            /\ a.editionDate = now

\* C17 as stated: when update-results has been applied, applying the same
\* batch again, at that instant or a later one, leaves every table as it is.
C17_UpdateResultsIdempotent ==
    (/\ last.op = "updateAuditResults"
     /\ findAudit(audits, last.uniqueId) # {})
        => \A date \in now..MaxClock :
            updateResultsTransaction(last.uniqueId, last.data, date).db
                = unchangedTables

\* C17 amended: when update-results has been applied, applying the same batch
\* again, at that instant or a later one, leaves the result rows and every
\* other table as they are, and the audit row too but for its edit date,
\* which is the instant of the second application when the batch applies and
\* the audit is published.
C17_IdempotentButEditDate ==
    (/\ last.op = "updateAuditResults"
     /\ findAudit(audits, last.uniqueId) # {})
        => \A date \in now..MaxClock :
            LET again == updateResultsTransaction(last.uniqueId, last.data,
                                                  date).db
            IN  /\ [again EXCEPT !.audits = audits] = unchangedTables
                /\ again.audits =
                    {IF /\ a.editUniqueId = last.uniqueId
                        /\ a.publicationDate # NULL
                        /\ last.status = "OK"
                        THEN [a EXCEPT !.editionDate = date] ELSE a
                     : a \in audits}

\* C17 witness: a batch of one tuple was applied to a published audit while
\* the clock can still advance
C17_Witness ==
    /\ last.op = "updateAuditResults" /\ last.status = "OK"
    /\ Len(last.data) = 1
    /\ now < MaxClock
    /\ \E a \in findAudit(audits, last.uniqueId) : a.publicationDate # NULL

-----------------------------------------------------------------------------
(* Trace rows and tokens, over the two audits of SpecGone.                 *)

\* the pair of tokens an audit row carries
TokenPair(a) == <<a.editUniqueId, a.consultUniqueId>>

\* C13: create-audit adds one trace row, holding exactly the tokens of the
\* audit it creates; no step removes or changes a trace row; a live audit
\* carries the token pair it was created with, and a trace row holds that
\* pair.
C13_TraceAndTokensImmutable ==
    [][/\ traces \subseteq traces'
       /\ \A a \in audits' :
            /\ [auditEditUniqueId |-> a.editUniqueId,
                auditConsultUniqueId |-> a.consultUniqueId] \in traces'
            /\ \/ \E b \in audits : TokenPair(b) = TokenPair(a)
               \/ /\ last'.op = "createAudit"
                  /\ TokenPair(a) = <<last'.uniqueId, last'.body>>
       /\ IF last'.op = "createAudit" /\ last'.status = "Created"
          THEN /\ traces' = traces \cup
                    {[auditEditUniqueId |-> last'.uniqueId,
                      auditConsultUniqueId |-> last'.body]}
               /\ Cardinality(traces') = Cardinality(traces) + 1
               /\ \E a \in audits' \ audits :
                    TokenPair(a) = <<last'.uniqueId, last'.body>>
          ELSE traces' = traces
      ]_vars

\* C13 witness: the first audit was deleted after the second was given a page
\* and published; both trace rows are there
C13_Witness ==
    /\ last.op = "deleteAudit" /\ last.status = "OK"
    /\ last.uniqueId = EditId(1)
    /\ traces = {[auditEditUniqueId |-> EditId(i),
                  auditConsultUniqueId |-> ConsultId(i)] : i \in 1..2}
    /\ \E a \in findAudit(audits, EditId(2)) : a.publicationDate # NULL
    /\ OfAudit(pages, EditId(2)) # {}

-----------------------------------------------------------------------------
(* The answers of update-audit, over the payloads of SpecAtomic.           *)

\* C14: update-audit answers not found (Not Found or Gone) and writes nothing
\* when no audit holds the token; when the audit exists, a persistence error
\* of the update is passed on as it is (Internal Server Error) and is never
\* answered as not found.
C14_NotFoundOnlyForMissingAudit ==
    [][last'.op = "updateAudit" =>
        IF findAudit(audits, last'.uniqueId) = {}
        THEN /\ last'.status \in {"NotFound", "Gone"}
             /\ UNCHANGED <<tables, nextPageId>>
        ELSE last'.status \in {"OK", "InternalServerError"}
      ]_vars

-----------------------------------------------------------------------------
(* update-results served while other requests are: its lookup and its      *)
(* write are two steps, and delete-audit may be served between them.       *)

NextRace ==
    \/ AuditsController_createAudit(CreateAuditDto("proc", <<>>))
    \/ \E uniqueId \in EditIds, data \in GonePagesDtos :
            AuditsController_updateAudit(uniqueId, data)
    \/ \E uniqueId \in EditIds, body \in GoneResultsDtos :
            AuditsController_updateAuditResults_lookup(uniqueId, body)
    \/ \E request \in pending :
            AuditsController_updateAuditResults_write(request)
    \/ \E uniqueId \in EditIds : AuditsController_deleteAudit(uniqueId)

SpecRace == Init /\ [][NextRace]_vars

\* C15: update-results answered for a token that no audit holds when it
\* commits, delete-audit having been served after its lookup or before,
\* answers Not Found or Gone, and no result row of that token is stored.
C15_UpdateResultsOfAuditGoneAtCommit ==
    (/\ last.op = "updateAuditResults"
     /\ findAudit(audits, last.uniqueId) = {})
        => /\ last.status \in {"NotFound", "Gone"}
           /\ OfAudit(results, last.uniqueId) = {}

-----------------------------------------------------------------------------
(* Two clients editing one audit at once: each update-audit is received,   *)
(* and the store commits the transactions one after the other in either    *)
(* order.                                                                  *)

ConcurrentDtos ==
    {UpdateAuditDto("proc-A", <<>>,
        <<[name |-> "axe", function |-> "scan", url |-> "https://t"]>>,
        <<>>, <<>>),
     UpdateAuditDto("proc-B", <<>>,
        <<[name |-> "axe", function |-> "contrast", url |-> "https://t"],
          [name |-> "wave", function |-> "scan", url |-> "https://t"]>>,
        <<>>, <<>>),
     UpdateAuditDto("proc-C", <<[email |-> "a@x", name |-> "Ann"]>>, <<>>,
        <<>>, <<>>)}

NextConcurrent ==
    \/ /\ nanoid <= 1
       /\ AuditsController_createAudit(CreateAuditDto("proc", <<>>))
    \/ \E data \in ConcurrentDtos :
            AuditsController_updateAudit_receive(EditId(1), data)
    \/ \E request \in pending : AuditsController_updateAudit_commit(request)
    \/ AuditsController_getAudit(EditId(1))

SpecConcurrent == Init /\ [][NextConcurrent]_vars

\* the scalar fields and nested collections of one audit in a set of tables
AuditContent(db, uniqueId) ==
    [procedureName |-> {a.procedureName : a \in findAudit(db.audits, uniqueId)},
     recipients |-> OfAudit(db.recipients, uniqueId),
     tools |-> OfAudit(db.tools, uniqueId),
     environments |-> OfAudit(db.environments, uniqueId),
     pages |-> {[name |-> p.name, url |-> p.url] :
                    p \in OfAudit(db.pages, uniqueId)}]

\* C18: an update-audit received for a live audit succeeds when it commits,
\* whatever was committed since it was received; and when it is the last of
\* the updates in flight to commit, the audit's scalar fields and nested
\* collections are those the call would have left if served alone.
C18_ConcurrentUpdateLastWriteWins ==
    [][\A request \in pending :
        (/\ request.op = "updateAudit"
         /\ request \notin pending'
         /\ request.alone.returned = "audit")
            => /\ last'.status = "OK"
               /\ pending' = {} =>
                    AuditContent([audits |-> audits', recipients |-> recipients',
                                  tools |-> tools',
                                  environments |-> environments',
                                  pages |-> pages'], request.uniqueId)
                        = AuditContent(request.alone.db, request.uniqueId)
      ]_vars

-----------------------------------------------------------------------------
(* The report of one audit of two pages.                                   *)

ReportPagesDtos ==
    {UpdateAuditDto("proc", <<>>, <<>>, <<>>,
        <<[id |-> NoId, name |-> "Home", url |-> "/a"],
          [id |-> NoId, name |-> "Contact", url |-> "/b"]>>)}

\* three criteria on page /a and the first of them on page /b
ReportResultItems ==
    LET item(url, topic, criterium, status) ==
            [pageUrl |-> url, topic |-> topic, criterium |-> criterium,
             status |-> status, compliantComment |-> "null",
             userImpact |-> "null"]
    IN  {item("/a", k[1], k[2], st) :
            k \in {<<1, 1>>, <<1, 2>>, <<2, 1>>},
            st \in {"COMPLIANT", "NOT_COMPLIANT", "NOT_APPLICABLE"}}
        \cup {item("/b", 1, 1, st) :
                st \in {"COMPLIANT", "NOT_COMPLIANT", "NOT_APPLICABLE",
                        "NOT_TESTED"}}

NextReport ==
    \/ /\ nanoid <= 1
       /\ AuditsController_createAudit(CreateAuditDto("proc", <<>>))
    \/ \E data \in ReportPagesDtos :
            AuditsController_updateAudit(EditId(1), data)
    \/ \E item \in ReportResultItems :
            AuditsController_updateAuditResults(EditId(1), <<item>>)
    \/ getAuditReport(ConsultId(1))

SpecReport == Init /\ [][NextReport]_vars

\* C16: the report of an existing audit is returned, never an error.  With the
\* stored results grouped by topic and criterion, a group applicable when
\* some result of it is not NOT_APPLICABLE and compliant when applicable and
\* all of its results are COMPLIANT or NOT_APPLICABLE, the rate is the integer
\* nearest to 100 x compliant / applicable; with no applicable group the rate
\* is the fixed value NaN.
C16_AccessibilityRate ==
    (/\ last.op = "getAuditReport"
     /\ \E a \in audits : a.consultUniqueId = last.uniqueId)
        => LET rows == {r \in results : \E a \in audits :
                            /\ a.consultUniqueId = last.uniqueId
                            /\ r.auditUniqueId = a.editUniqueId}
               groups == {<<r.topic, r.criterium>> : r \in rows}
               of(g) == {r \in rows : r.topic = g[1] /\ r.criterium = g[2]}
               applicable ==
                    Cardinality({g \in groups :
                        \E r \in of(g) : r.status # "NOT_APPLICABLE"})
               compliant ==
                    Cardinality({g \in groups :
                        /\ \E r \in of(g) : r.status # "NOT_APPLICABLE"
                        /\ \A r \in of(g) :
                            r.status \in {"COMPLIANT", "NOT_APPLICABLE"}})
               rate == last.body.accessibilityRate
           IN  /\ last.status = "OK"
               /\ last.body.applicableCriteriaCount = applicable
               /\ IF applicable = 0 THEN rate = NaN
                  ELSE /\ rate \in 0..100
                       /\ 2 * applicable * rate <= 200 * compliant + applicable
                       /\ 200 * compliant + applicable
                            < 2 * applicable * (rate + 1)

\* C16 witness: a report of rate 67: three applicable groups, two of them
\* compliant, one of these with a NOT_APPLICABLE result on one page and a
\* COMPLIANT result on the other
C16_Witness ==
    /\ last.op = "getAuditReport" /\ last.status = "OK"
    /\ last.body.applicableCriteriaCount = 3
    /\ last.body.accessibilityRate = 67
    /\ \E r \in results, q \in results :
            /\ r.topic = q.topic /\ r.criterium = q.criterium
            /\ r.status = "NOT_APPLICABLE" /\ q.status = "COMPLIANT"

-----------------------------------------------------------------------------
(* Two audits with rows in every child table, and delete-audit.            *)

CascadeDtos ==
    {UpdateAuditDto("proc", <<>>, <<>>, <<>>, <<>>),
     UpdateAuditDto("proc",
        <<[email |-> "b@x", name |-> "Bob"]>>,
        <<[name |-> "axe", function |-> "scan", url |-> "https://t"]>>,
        <<EnvironmentItem("desktop", "Firefox")>>,
        <<[id |-> NoId, name |-> "Home", url |-> "/a"]>>)}

CascadeResultsDtos ==
    {<<ResultItem("/a", CRITERIA[1],
        [status |-> "COMPLIANT", compliantComment |-> "fine",
         userImpact |-> "null"])>>}

NextCascade ==
    \/ \E rl \in {<<>>, <<[email |-> "a@x", name |-> "Ann"]>>} :
            AuditsController_createAudit(CreateAuditDto("proc", rl))
    \/ \E uniqueId \in EditIds, data \in CascadeDtos :
            AuditsController_updateAudit(uniqueId, data)
    \/ \E uniqueId \in EditIds, body \in CascadeResultsDtos :
            AuditsController_updateAuditResults(uniqueId, body)
    \/ \E uniqueId \in EditIds : AuditsController_deleteAudit(uniqueId)

SpecCascade == Init /\ [][NextCascade]_vars

\* the rows of a child table that belong to other audits than this one
NotOfAudit(rows, uniqueId) == {r \in rows : r.auditUniqueId # uniqueId}

-----------------------------------------------------------------------------
(* The results store of the web application (useResultsStore).  data and   *)
(* previousStatuses are nested objects indexed by page, topic and          *)
(* criterion: here functions whose domain is a set of keys                 *)
(* <<pageId, topic, criterium>>.  Of a CriteriumResult the status is kept. *)
(* ky.patch resolves (ok) or rejects; a rejection is thrown to the caller. *)

\* the statuses the store is exercised with
CriteriumResultStatus == {"NOT_TESTED", "COMPLIANT", "NOT_APPLICABLE"}

\* the results GET /api/audits/:uniqueId/results answers with: one audited
\* page, two criteria of topic 1 and one of topic 2
FetchedKeys == {<<1, 1, 1>>, <<1, 1, 2>>, <<1, 2, 1>>}

\* the page and topic arguments the components pass; page 2 is not in the store
StorePageIds == {1, 2}
StoreTopics == {1, 2}

\* getTopicResults(pageId, topicNumber): the keys of the results of one topic
\* of one page, none when data is null or has no such page or topic
getTopicResults(pageId, topicNumber) ==
    IF ~store.fetched THEN {}
    ELSE {k \in DOMAIN store.data : k[1] = pageId /\ k[2] = topicNumber}

\* f with the entries of g written over it
Assign(f, g) ==
    [k \in DOMAIN f \cup DOMAIN g |-> IF k \in DOMAIN g THEN g[k] ELSE f[k]]

\* (mutant) the status saved is the one being set
Mutant_savePreviousStatuses(previous, keys, status) ==
    Assign(previous, [k \in keys |-> status])

\* setTopicStatus: setWith(previousStatuses, [pageId, topic, criterium],
\* r.status) for every result of the topic
savePreviousStatuses(previous, keys, status) ==
    Assign(previous, [k \in keys |-> store.data[k]])

\* has(this.previousStatuses, [pageId, topicNumber])
hasPreviousStatuses(pageId, topicNumber) ==
    \E k \in DOMAIN store.previousStatuses :
        k[1] = pageId /\ k[2] = topicNumber

\* unset(this.previousStatuses, [pageId, topicNumber])
unsetPreviousStatuses(previous, pageId, topicNumber) ==
    [k \in {x \in DOMAIN previous : ~(x[1] = pageId /\ x[2] = topicNumber)}
        |-> previous[k]]

\* updateResults after its PATCH resolved: nothing when data is null,
\* otherwise every update written into data
applyUpdates(updates) ==
    IF ~store.fetched THEN store.data ELSE Assign(store.data, updates)

\* fetchResults: data is rebuilt from the response
useResultsStore_fetchResults(response) ==
    /\ ~store.fetched
    /\ store' = [store EXCEPT !.fetched = TRUE, !.data = response]
    /\ last' = Response("fetchResults", NoData, NoData, "OK", NoData)
    /\ UNCHANGED <<tables, now, nextPageId, pending>>

\* updateResults with one update, as the criterion form sends it
useResultsStore_updateResults(key, status, ok) ==
    /\ key \in DOMAIN store.data
    /\ store' = IF ok THEN [store EXCEPT !.data = applyUpdates([k \in {key} |-> status])]
                ELSE store
    /\ last' = Response("updateResults", key, [k \in {key} |-> status],
                        IF ok THEN "OK" ELSE "throw", NoData)
    /\ UNCHANGED <<tables, now, nextPageId, pending>>

\* the store after setTopicStatus(uniqueId, pageId, topicNumber, status)
setTopicStatusStore(pageId, topicNumber, status, ok) ==
    LET keys == getTopicResults(pageId, topicNumber)
        saved == IF status = "NOT_APPLICABLE"
                 THEN savePreviousStatuses(store.previousStatuses, keys, status)
                 ELSE store.previousStatuses
        updates == [k \in keys |-> status]
    IN  [store EXCEPT !.previousStatuses = saved,
                      !.data = IF ok THEN applyUpdates(updates) ELSE @]

useResultsStore_setTopicStatus(pageId, topicNumber, status, ok) ==
    /\ store' = setTopicStatusStore(pageId, topicNumber, status, ok)
    /\ last' = Response("setTopicStatus", <<pageId, topicNumber>>,
                        [k \in getTopicResults(pageId, topicNumber) |-> status],
                        IF ok THEN "OK" ELSE "throw", NoData)
    /\ UNCHANGED <<tables, now, nextPageId, pending>>

\* revertTopicStatus(uniqueId, pageId, topicNumber): with saved statuses, one
\* update per saved criterion, built on the result getCriteriumResult gives
\* (a TypeError when it gives none), then the saved statuses are dropped;
\* without, setTopicStatus(..., NOT_TESTED)
useResultsStore_revertTopicStatus(pageId, topicNumber, ok) ==
    LET previous == store.previousStatuses
        keys == {k \in DOMAIN previous : k[1] = pageId /\ k[2] = topicNumber}
        updates == [k \in keys |-> previous[k]]
        done == ok /\ keys \subseteq DOMAIN store.data
    IN  /\ store' =
            IF hasPreviousStatuses(pageId, topicNumber)
            THEN IF done
                 THEN [store EXCEPT
                        !.data = applyUpdates(updates),
                        !.previousStatuses =
                            unsetPreviousStatuses(previous, pageId, topicNumber)]
                 ELSE store
            ELSE setTopicStatusStore(pageId, topicNumber, "NOT_TESTED", ok)
        /\ last' = Response("revertTopicStatus", <<pageId, topicNumber>>,
                        IF hasPreviousStatuses(pageId, topicNumber) THEN updates
                        ELSE [k \in getTopicResults(pageId, topicNumber)
                                |-> "NOT_TESTED"],
                        IF (hasPreviousStatuses(pageId, topicNumber) /\ done)
                            \/ (~hasPreviousStatuses(pageId, topicNumber) /\ ok)
                           THEN "OK" ELSE "throw",
                        NoData)
        /\ UNCHANGED <<tables, now, nextPageId, pending>>

NextStore ==
    \/ \E response \in [FetchedKeys -> CriteriumResultStatus] :
            useResultsStore_fetchResults(response)
    \/ \E key \in FetchedKeys, status \in CriteriumResultStatus, ok \in BOOLEAN :
            useResultsStore_updateResults(key, status, ok)
    \/ \E pageId \in StorePageIds, topicNumber \in StoreTopics,
          status \in CriteriumResultStatus, ok \in BOOLEAN :
            useResultsStore_setTopicStatus(pageId, topicNumber, status, ok)
    \/ \E pageId \in StorePageIds, topicNumber \in StoreTopics, ok \in BOOLEAN :
            useResultsStore_revertTopicStatus(pageId, topicNumber, ok)

SpecStore == Init /\ [][NextStore]_vars

\* C20: a setTopicStatus(page, topic, NOT_APPLICABLE) whose update is
\* accepted saves, for every criterion of the topic the store holds for the
\* page, the status it had, and sets it to NOT_APPLICABLE.  A
\* revertTopicStatus(page, topic) whose update is accepted sets every such
\* criterion to its saved status and drops the saved statuses of the page and
\* topic; when none are saved it sets every such criterion to NOT_TESTED.
\* Neither changes the status of a criterion of another page or topic.
C20_RevertRestoresTopic ==
    [][(last'.op \in {"setTopicStatus", "revertTopicStatus"}
            /\ last'.status = "OK")
        => LET pageId == last'.uniqueId[1]
               topicNumber == last'.uniqueId[2]
               keys == getTopicResults(pageId, topicNumber)
           IN  /\ DOMAIN store'.data = DOMAIN store.data
               /\ \A k \in DOMAIN store.data \ keys :
                    store'.data[k] = store.data[k]
               /\ (last'.op = "setTopicStatus"
                        /\ \E k \in keys : last'.data[k] = "NOT_APPLICABLE")
                    => \A k \in keys :
                        /\ k \in DOMAIN store'.previousStatuses
                        /\ store'.previousStatuses[k] = store.data[k]
                        /\ store'.data[k] = "NOT_APPLICABLE"
               /\ last'.op = "revertTopicStatus"
                    => /\ \A k \in DOMAIN store'.previousStatuses :
                            ~(k[1] = pageId /\ k[2] = topicNumber)
                       /\ IF hasPreviousStatuses(pageId, topicNumber)
                          THEN \A k \in keys :
                                /\ k \in DOMAIN store.previousStatuses
                                /\ store'.data[k] = store.previousStatuses[k]
                          ELSE \A k \in keys : store'.data[k] = "NOT_TESTED"
      ]_vars

\* C20 witness: revertTopicStatus has put the two criteria of topic 1 of
\* page 1 back to their saved statuses, COMPLIANT and NOT_TESTED, and no
\* status of the topic is saved any more
C20_Witness ==
    /\ last.op = "revertTopicStatus" /\ last.status = "OK"
    /\ last.uniqueId = <<1, 1>>
    /\ DOMAIN last.data = {<<1, 1, 1>>, <<1, 1, 2>>}
    /\ last.data[<<1, 1, 1>>] = "COMPLIANT"
    /\ last.data[<<1, 1, 2>>] = "NOT_TESTED"
    /\ store.data[<<1, 1, 1>>] = "COMPLIANT"
    /\ store.data[<<1, 1, 2>>] = "NOT_TESTED"
    /\ ~hasPreviousStatuses(1, 1)

-----------------------------------------------------------------------------
(* publish-audit served while update-results is: its completion check and  *)
(* its write are two steps.                                                *)

PublishRaceResultsDtos ==
    {<<ResultItem("/a", CRITERIA[1], j)>> :
        j \in {x \in Judgements : x.status \in {"COMPLIANT", "NOT_TESTED"}}}

NextPublishRace ==
    \/ /\ nanoid <= 1
       /\ AuditsController_createAudit(CreateAuditDto("proc", <<>>))
    \/ \E data \in GonePagesDtos :
            AuditsController_updateAudit(EditId(1), data)
    \/ \E body \in PublishRaceResultsDtos :
            AuditsController_updateAuditResults(EditId(1), body)
    \/ AuditsController_publishAudit_check(EditId(1))
    \/ \E request \in pending : AuditsController_publishAudit_write(request)
    \/ Tick

SpecPublishRace == Init /\ [][NextPublishRace]_vars

\* C21: whenever publish-audit has written the publication date, whatever
\* update-results calls were served since its completion check, no stored
\* result of the audit has status NOT_TESTED.
C21_PublishedOnlyWhenComplete ==
    (last.op = "publishAudit" /\ last.status = "OK")
        => ~HasStoredNotTested(last.uniqueId)

-----------------------------------------------------------------------------
(* The answers of update-audit on a live audit, over the payloads of       *)
(* SpecAtomic.                                                             *)

\* C22: update-audit addressed by the edit token of a live audit never
\* answers Not Found or Gone, whatever its payload, a page identifier that
\* is not one of the audit's pages included.
C22_LiveAuditNeverNotFound ==
    (last.op = "updateAudit" /\ findAudit(audits, last.uniqueId) # {})
        => last.status \notin {"NotFound", "Gone"}

-----------------------------------------------------------------------------
(* update-audit and the stored results, over the pages and results of      *)
(* SpecMatrix.                                                             *)

\* what a result row stores of the assessment of its criterion
Assessment(r) ==
    [topic |-> r.topic, criterium |-> r.criterium, status |-> r.status,
     compliantComment |-> r.compliantComment, userImpact |-> r.userImpact]

\* the assessments stored for the page of this identifier
AssessmentsOfPage(resultRows, pageRows, uniqueId, id) ==
    {Assessment(r) :
        r \in {x \in OfAudit(resultRows, uniqueId) :
                \E p \in OfAudit(pageRows, uniqueId) :
                    p.id = id /\ p.url = x.pageUrl}}

\* C23: a successful update-audit leaves the stored results of every page
\* whose identifier is in the payload as they were, adds no result row, and
\* removes the result rows of the other pages of the audit and only those;
\* after a payload whose pages carry no identifier none of the earlier pages
\* and none of the earlier results is left.
C23_ResultsOnlyCascade ==
    [][(last'.op = "updateAudit" /\ last'.status = "OK")
        => LET u == last'.uniqueId
               d == last'.data
               ids == {d.pages[i].id : i \in DOMAIN d.pages} \ {NoId}
               kept == {r \in OfAudit(results, u) :
                            \E p \in OfAudit(pages, u) :
                                p.url = r.pageUrl /\ p.id \in ids}
           IN  /\ \A id \in ids :
                    AssessmentsOfPage(results', pages', u, id)
                        = AssessmentsOfPage(results, pages, u, id)
               /\ \A r \in OfAudit(results', u) :
                    \E p \in OfAudit(pages', u) :
                        p.url = r.pageUrl /\ p.id \in ids
               /\ Cardinality(OfAudit(results', u)) = Cardinality(kept)
               /\ ids = {} =>
                    /\ OfAudit(results', u) = {}
                    /\ \A p \in OfAudit(pages', u), q \in OfAudit(pages, u) :
                            p.id # q.id
      ]_vars

\* C23 witness: an update whose payload names page 1 alone, under a new url,
\* succeeded on an audit that had two pages: the result of page 1 is stored
\* under the new url and page 2 is gone
C23_Witness ==
    /\ last.op = "updateAudit" /\ last.status = "OK"
    /\ last.data.pages = <<[id |-> 1, name |-> "Home", url |-> "/b"]>>
    /\ nextPageId = 3
    /\ {p.id : p \in OfAudit(pages, last.uniqueId)} = {1}
    /\ \E r \in OfAudit(results, last.uniqueId) :
            r.pageUrl = "/b" /\ r.status = "COMPLIANT"

-----------------------------------------------------------------------------
(* The two dates of an audit, over the behaviours of SpecStamp.            *)

\* C24: after every step an audit with an edit date has a publication date,
\* and an audit that had a publication date before the step still has one.
C24_EditDateOnlyIfPublished ==
    [][/\ \A a \in audits' :
            a.editionDate # NULL => a.publicationDate # NULL
       /\ \A a \in audits, b \in audits' :
            (a.editUniqueId = b.editUniqueId /\ a.publicationDate # NULL)
                => b.publicationDate # NULL
      ]_vars

\* C24 witness: update-results has stamped the edit date of an audit that
\* was published at an earlier instant and still carries that publication
\* date
C24_Witness ==
    /\ last.op = "updateAuditResults" /\ last.status = "OK"
    /\ \E a \in findAudit(audits, last.uniqueId) :
            /\ a.publicationDate # NULL
            /\ a.editionDate = now
            /\ a.publicationDate < a.editionDate
    /\ OfAudit(results, last.uniqueId) # {}

-----------------------------------------------------------------------------
(* A client that holds a consult token: every request of SpecGone, which   *)
(* may carry a consult token where an edit token is expected, and the      *)
(* report.                                                                 *)

NextConsult ==
    \/ NextGone
    \/ \E uniqueId \in RequestIds : getAuditReport(uniqueId)

SpecConsult == Init /\ [][NextConsult]_vars

\* the fields of a row or report through which it could give a token away
TokenFields == {"editUniqueId", "auditUniqueId", "auditEditUniqueId"}

\* C25: update-audit, update-results, publish-audit and delete-audit
\* addressed by the consult token of a live audit change no table and do not
\* succeed; the report of a consult token holds that token in
\* consultUniqueId, and neither the report nor an entry of its samples or
\* results has a field holding the edit token.
C25_ConsultTokenReadOnly ==
    [][/\ (/\ last'.op \in {"updateAudit", "updateAuditResults",
                           "publishAudit", "deleteAudit"}
           /\ \E a \in audits : a.consultUniqueId = last'.uniqueId)
            => /\ UNCHANGED <<tables, nextPageId>>
               /\ last'.status \in {"NotFound", "Gone"}
       /\ (last'.op = "getAuditReport" /\ last'.status = "OK")
            => /\ last'.uniqueId \in ConsultIds
               /\ last'.body.consultUniqueId = last'.uniqueId
               /\ DOMAIN last'.body \cap TokenFields = {}
               /\ \A r \in last'.body.results \cup last'.body.samples :
                    DOMAIN r \cap TokenFields = {}
      ]_vars

\* C25 witness: delete-audit addressed by the consult token of the first
\* audit, which has a page and a stored result, was answered Not Found
C25_Witness ==
    /\ last.op = "deleteAudit"
    /\ last.uniqueId = ConsultId(1)
    /\ last.status = "NotFound"
    /\ OfAudit(pages, EditId(1)) # {}
    /\ OfAudit(results, EditId(1)) # {}

====
